---- MODULE Spec2Model ----
(***************************************************************************)
(* Model of analyze_focal_lengths.py: the EXIF helpers (exif_vals,         *)
(* to_float, camera, ff_equiv) as operators, and main as a state machine   *)
(* whose steps are the statements of main in program order.                *)
(*                                                                         *)
(* Text is a sequence of one-character strings, and a str value of Python  *)
(* is a record [t |-> "str", s |-> text].  A float is a record             *)
(* [t |-> "float", v |-> n] with n the value in thousandths (35.0 is       *)
(* 35000); every input of the model has at most two fractional digits, so  *)
(* n and n * 1.5 are exact in thousandths, and a product that lands on a   *)
(* half is an exactly representable binary float as well.  A raised        *)
(* exception is a record [t |-> "raise", e |-> name].                      *)
(***************************************************************************)
EXTENDS Integers, Sequences, FiniteSets, TLC

VARIABLES
    pc,        \* position of main
    isDir,     \* root.is_dir()
    nfiles,    \* len(files)
    i,         \* loop index of "for i, f in enumerate(files, 1)"
    out,       \* stdout of the last exiftool run
    meta,      \* meta of the current iteration
    hist,      \* Counter: rounded 35mm-eq -> count
    camfx,     \* Counter: (camera, native, ff) -> count
    written,   \* output files created so far, name -> written rows
    exitmsg,   \* message of sys.exit, or the uncaught exception
    log,       \* history: per finished iteration, its stdout and ff_mm / native / cam
    fin,       \* pure-function harness: the input
    fres       \* pure-function harness: the last result

vars == <<pc, isDir, nfiles, i, out, meta, hist, camfx, written, exitmsg, log, fin, fres>>
scanvars == <<pc, isDir, nfiles, i, out, meta, hist, camfx, written, exitmsg, log>>
fnvars == <<fin, fres>>

(***************************************************************************)
(* Bounds                                                                  *)
(***************************************************************************)
MaxFiles == 3

(***************************************************************************)
(* Python values                                                           *)
(***************************************************************************)
None == [t |-> "None"]
Float(n) == [t |-> "float", v |-> n]
Str(s) == [t |-> "str", s |-> s]
Raise(e) == [t |-> "raise", e |-> e]
IsRaise(x) == "t" \in DOMAIN x /\ x.t = "raise"
IsFloat(x) == x # None /\ ~IsRaise(x)
\* bool(x) for x an optional float: None and 0.0 are false
Truthy(x) == x # None /\ x.v # 0
\* (x or "") for x an optional str
OrEmpty(x) == IF x = None THEN <<>> ELSE x.s

(***************************************************************************)
(* Text                                                                    *)
(***************************************************************************)
NL == "\n"
LowerCase == <<"a","b","c","d","e","f","g","h","i","j","k","l","m",
               "n","o","p","q","r","s","t","u","v","w","x","y","z">>
UpperCase == <<"A","B","C","D","E","F","G","H","I","J","K","L","M",
               "N","O","P","Q","R","S","T","U","V","W","X","Y","Z">>
DigitChars == <<"0","1","2","3","4","5","6","7","8","9">>
\* the characters of the model in code-point order
CodePoints == <<NL, " ", "-", ".">> \o DigitChars \o UpperCase \o LowerCase

IndexOf(c, seq) == CHOOSE j \in 1..Len(seq) : seq[j] = c
IsIn(c, seq) == \E j \in 1..Len(seq) : seq[j] = c
Ord(c) == IndexOf(c, CodePoints)
IsDigit(c) == IsIn(c, DigitChars)
DigitVal(c) == IndexOf(c, DigitChars) - 1
IsSpace(c) == c \in {" ", NL}

\* str.upper()
upper(s) == [j \in 1..Len(s) |-> IF IsIn(s[j], LowerCase)
                                 THEN UpperCase[IndexOf(s[j], LowerCase)]
                                 ELSE s[j]]

\* "sub in s"
Contains(s, sub) ==
    \E j \in 0..(Len(s) - Len(sub)) : SubSeq(s, j + 1, j + Len(sub)) = sub

\* s < t for str (code-point lexicographic)
RECURSIVE StrLess(_, _)
StrLess(s, t) ==
    IF t = <<>> THEN FALSE
    ELSE IF s = <<>> THEN TRUE
    ELSE IF s[1] # t[1] THEN Ord(s[1]) < Ord(t[1])
    ELSE StrLess(Tail(s), Tail(t))

\* str.strip()
RECURSIVE LStrip(_)
LStrip(s) == IF s # <<>> /\ IsSpace(s[1]) THEN LStrip(Tail(s)) ELSE s
RECURSIVE RStrip(_)
RStrip(s) == IF s # <<>> /\ IsSpace(s[Len(s)])
             THEN RStrip(SubSeq(s, 1, Len(s) - 1)) ELSE s
strip(s) == RStrip(LStrip(s))

\* str.splitlines(): no trailing empty line, "" gives []
RECURSIVE splitlines(_)
splitlines(s) ==
    IF s = <<>> THEN <<>>
    ELSE IF \E j \in 1..Len(s) : s[j] = NL
         THEN LET p == CHOOSE j \in 1..Len(s) :
                           s[j] = NL /\ \A q \in 1..(j - 1) : s[q] # NL
              IN  <<SubSeq(s, 1, p - 1)>> \o splitlines(SubSeq(s, p + 1, Len(s)))
         ELSE <<s>>

(***************************************************************************)
(* EXIF helpers                                                            *)
(***************************************************************************)
CROP_APSC == 1500
keys == <<"Make", "Model", "FL", "FL35", "FL35Comp">>

\* dict(zip(keys, lines + [None]*5))
ZipKeys(lines) ==
    LET padded == [j \in 1..Len(lines) |-> Str(lines[j])]
                      \o <<None, None, None, None, None>>
    IN  [k \in {keys[j] : j \in 1..Len(keys)} |-> padded[IndexOf(k, keys)]]

\* run is the outcome of subprocess.run(["exiftool", ...], check=True):
\* the executable is missing, or it exits with rc and the stdout text
exif_vals(run) ==
    IF ~run.found THEN Raise("FileNotFoundError")
    ELSE IF run.rc # 0 THEN Raise("CalledProcessError")
    ELSE ZipKeys(splitlines(strip(run.stdout)))

\* num.match(s): the longest prefix of s over [\d.], None when it is empty
RECURSIVE NumPrefix(_)
NumPrefix(s) ==
    IF s # <<>> /\ (IsDigit(s[1]) \/ s[1] = ".")
    THEN <<s[1]>> \o NumPrefix(Tail(s)) ELSE <<>>

RECURSIVE DigitsValue(_)
DigitsValue(d) ==
    IF d = <<>> THEN 0 ELSE DigitsValue(SubSeq(d, 1, Len(d) - 1)) * 10 + DigitVal(d[Len(d)])

\* float(g) for g over [\d.]: ValueError unless g is digits with at most one
\* dot and at least one digit; the value in thousandths
float(g) ==
    LET dots == {j \in 1..Len(g) : g[j] = "."}
    IN  IF Cardinality(dots) > 1 \/ Cardinality(dots) = Len(g)
        THEN Raise("ValueError")
        ELSE LET p    == IF dots = {} THEN Len(g) + 1 ELSE CHOOSE j \in dots : TRUE
                 ip   == SubSeq(g, 1, p - 1)
                 fp   == SubSeq(g, p + 1, Len(g)) \o <<"0", "0", "0">>
             IN  Float(DigitsValue(ip) * 1000 + DigitsValue(SubSeq(fp, 1, 3)))

to_float(s) ==
    LET g == NumPrefix(OrEmpty(s))
    IN  IF g # <<>> THEN float(g) ELSE None

camera(m) ==
    LET make  == upper(OrEmpty(m.Make))
        model == OrEmpty(m.Model)
    IN  IF Contains(make, <<"A","P","P","L","E">>) THEN <<"i","P","h","o","n","e">>
        ELSE IF Contains(make, <<"F","U","J","I","F","I","L","M">>)
             THEN IF Contains(upper(model), <<"X","-","T","5">>)
                  THEN <<"X","T","5">> ELSE model
        ELSE IF model # <<>> THEN model
        ELSE IF make # <<>> THEN make
        ELSE <<"U","n","k","n","o","w","n">>

\* meta always has the key "Make", so meta.get("Make","") is meta["Make"],
\* and None.upper() raises
ff_equiv(m, native) ==
    LET comp == to_float(m.FL35Comp)
        sep  == to_float(m.FL35)
    IN  IF IsRaise(comp) THEN comp
        ELSE IF Truthy(comp) THEN comp
        ELSE IF IsRaise(sep) THEN sep
        ELSE IF Truthy(sep) THEN sep
        ELSE IF native = None THEN None
        ELSE IF m.Make = None THEN Raise("AttributeError")
        ELSE IF Contains(upper(m.Make.s), <<"F","U","J","I","F","I","L","M">>)
             THEN Float((native.v * CROP_APSC) \div 1000)
             ELSE native

\* round(x) of a non-negative float: to the nearest integer, a half to the
\* even neighbour
round(x) ==
    LET q == x.v \div 1000
        r == x.v % 1000
    IN  IF r < 500 THEN q
        ELSE IF r > 500 THEN q + 1
        ELSE IF q % 2 = 0 THEN q ELSE q + 1

\* Counter: c[k] += 1
Incr(c, k) == IF k \in DOMAIN c THEN [c EXCEPT ![k] = @ + 1] ELSE c @@ (k :> 1)
EmptyCounter == <<>>

\* Python's < on the tuples (cam, nmm, ffmm)
TripleLess(a, b) ==
    \/ StrLess(a[1], b[1])
    \/ a[1] = b[1] /\ a[2] < b[2]
    \/ a[1] = b[1] /\ a[2] = b[2] /\ a[3] < b[3]

\* mutant: the items are written in descending order of key
RECURSIVE SortedIntItems_Descending(_, _)
SortedIntItems_Descending(c, ks) ==
    IF ks = {} THEN <<>>
    ELSE LET k == CHOOSE a \in ks : \A b \in ks : a >= b
         IN  <<<<k, c[k]>>>> \o SortedIntItems_Descending(c, ks \ {k})

\* sorted(c.items()) for a Counter keyed by int: rows <<key, count>>
RECURSIVE SortedIntItems(_, _)
SortedIntItems(c, ks) ==
    IF ks = {} THEN <<>>
    ELSE LET k == CHOOSE a \in ks : \A b \in ks : a <= b
         IN  <<<<k, c[k]>>>> \o SortedIntItems(c, ks \ {k})

\* sorted(c.items()) for a Counter keyed by triple: rows <<cam, nmm, ffmm, count>>
RECURSIVE SortedTripleItems(_, _)
SortedTripleItems(c, ks) ==
    IF ks = {} THEN <<>>
    ELSE LET k == CHOOSE a \in ks : \A b \in ks \ {a} : TripleLess(a, b)
         IN  <<<<k[1], k[2], k[3], c[k]>>>> \o SortedTripleItems(c, ks \ {k})

(***************************************************************************)
(* What exiftool can print.  With -s3 it prints one value per line; Emit   *)
(* is the stdout text of a run that printed the given lines.               *)
(***************************************************************************)
RECURSIVE Emit(_)
Emit(lines) == IF lines = <<>> THEN <<>> ELSE lines[1] \o <<NL>> \o Emit(Tail(lines))

Ran(lines) == [found |-> TRUE, rc |-> 0, lines |-> lines, stdout |-> Emit(lines)]
Failed == [found |-> TRUE, rc |-> 1, lines |-> <<>>, stdout |-> <<>>]
NotFound == [found |-> FALSE, rc |-> 0, lines |-> <<>>, stdout |-> <<>>]

FUJIFILM == <<"F","U","J","I","F","I","L","M">>
Fujifilm == <<"F","u","j","i","f","i","l","m">>
APPLE_INC == <<"A","P","P","L","E"," ","I","N","C",".">>
Apple == <<"A","p","p","l","e">>
Canon == <<"C","a","n","o","n">>
X_T5 == <<"X","-","T","5">>
X_T5_sp == <<"X","-","T","5"," ">>
x_t5 == <<"x","-","t","5">>
X100V == <<"X","1","0","0","V">>
R5 == <<"R","5">>
iPhone == <<"i","P","h","o","n","e">>
XT5 == <<"X","T","5">>
Unknown == <<"U","n","k","n","o","w","n">>
mm23 == <<"2","3"," ","m","m">>
mm35 == <<"3","5"," ","m","m">>
mm35_0 == <<"3","5",".","0"," ","m","m">>
mm50 == <<"5","0"," ","m","m">>
mm26 == <<"2","6"," ","m","m">>
mm6 == <<"6"," ","m","m">>
mm0 == <<"0",".","0"," ","m","m">>
mm025 == <<"0",".","2","5"," ","m","m">>
mm123 == <<"1",".","2",".","3"," ","m","m">>
dot == <<".">>
unit == <<"m","m">>
empty == <<>>

\* the runs of the scan
ScanRuns ==
    { Failed, NotFound,
      Ran(<<>>),
      Ran(<<Canon>>),
      Ran(<<FUJIFILM, X_T5, mm23>>),
      Ran(<<FUJIFILM, X_T5, mm23, mm35>>),
      Ran(<<Canon, R5, mm35_0, mm35, mm35>>),
      Ran(<<Apple, iPhone, mm6, mm26>>),
      Ran(<<Canon, R5, empty, mm50>>),
      Ran(<<Canon, R5, mm0>>),
      Ran(<<Canon, R5, mm025>>),
      Ran(<<Canon, R5, mm123>>),
      Ran(<<empty, X100V, mm23>>) }

(***************************************************************************)
(* main                                                                    *)
(***************************************************************************)
Running == {"start", "glob", "exif", "fold", "endscan", "write_hist", "write_cam", "plot"}
HIST_CSV == "focal_length_histogram.csv"
CAM_CSV == "camera_focal_usage.csv"
HIST_PNG == "focal_length_histogram.png"

Init ==
    /\ pc = "start"
    /\ isDir \in BOOLEAN
    /\ nfiles \in 0..MaxFiles
    /\ i = 0
    /\ out = None
    /\ meta = None
    /\ hist = EmptyCounter
    /\ camfx = EmptyCounter
    /\ written = <<>>
    /\ exitmsg = ""
    /\ log = <<>>
    /\ fin = None
    /\ fres = None

\* lines 53-55
CheckRoot ==
    /\ pc = "start"
    /\ IF isDir THEN pc' = "glob" /\ UNCHANGED exitmsg
       ELSE pc' = "exit" /\ exitmsg' = "Folder not found"
    /\ UNCHANGED <<isDir, nfiles, i, out, meta, hist, camfx, written, log, fin, fres>>

\* lines 57-62, and the first iteration's "i = 1"
Discover ==
    /\ pc = "glob"
    /\ IF nfiles = 0
       THEN pc' = "exit" /\ exitmsg' = "No supported images found." /\ UNCHANGED i
       ELSE pc' = "exif" /\ i' = 1 /\ UNCHANGED exitmsg
    /\ UNCHANGED <<isDir, nfiles, out, meta, hist, camfx, written, log, fin, fres>>

\* line 66: meta = exif_vals(f); the exception of subprocess.run is not caught
ExifVals ==
    /\ pc = "exif"
    /\ \E run \in ScanRuns :
          /\ out' = run
          /\ LET r == exif_vals(run)
             IN  IF IsRaise(r)
                 THEN pc' = "raised" /\ exitmsg' = r.e /\ UNCHANGED meta
                 ELSE pc' = "fold" /\ meta' = r /\ UNCHANGED exitmsg
    /\ UNCHANGED <<isDir, nfiles, i, hist, camfx, written, log, fin, fres>>

\* lines 67-69: native, ff_mm and cam of one record, or the exception raised
Observe(m) ==
    LET native == to_float(m.FL)
        ff_mm  == IF IsRaise(native) THEN native ELSE ff_equiv(m, native)
    IN  [native |-> native, ff_mm |-> ff_mm, cam |-> camera(m)]

\* mutant: a file with no usable value is counted under key 0
HistAfter_CountsMissingAsZero(h, o) ==
    IF Truthy(o.ff_mm) THEN Incr(h, round(o.ff_mm)) ELSE Incr(h, 0)

\* lines 71-72
HistAfter(h, o) ==
    IF Truthy(o.ff_mm) THEN Incr(h, round(o.ff_mm)) ELSE h

\* mutant: the test of native is dropped
CamfxAfter_IgnoresNative(c, o) ==
    IF Truthy(o.ff_mm)
    THEN Incr(c, <<o.cam, IF Truthy(o.native) THEN round(o.native) ELSE 0, round(o.ff_mm)>>)
    ELSE c

\* lines 73-74
CamfxAfter(c, o) ==
    IF Truthy(o.native) /\ Truthy(o.ff_mm)
    THEN Incr(c, <<o.cam, round(o.native), round(o.ff_mm)>>) ELSE c

\* lines 67-74 and the loop's advance
Fold ==
    /\ pc = "fold"
    /\ LET o == Observe(meta)
       IN  IF IsRaise(o.ff_mm)
           THEN /\ pc' = "raised" /\ exitmsg' = o.ff_mm.e
                /\ UNCHANGED <<i, hist, camfx, log>>
           ELSE /\ hist' = HistAfter(hist, o)
                /\ camfx' = CamfxAfter(camfx, o)
                /\ log' = Append(log, o)
                /\ IF i < nfiles THEN i' = i + 1 /\ pc' = "exif"
                                 ELSE i' = i /\ pc' = "endscan"
                /\ UNCHANGED exitmsg
    /\ UNCHANGED <<isDir, nfiles, out, meta, written, fin, fres>>

\* mutant: the empty histogram is not checked before the report
EndScan_NoDataCheck ==
    /\ pc = "endscan"
    /\ pc' = "write_hist"
    /\ UNCHANGED <<isDir, nfiles, i, out, meta, hist, camfx, written, exitmsg, log, fin, fres>>

\* lines 76-79
EndScan ==
    /\ pc = "endscan"
    /\ IF DOMAIN hist = {}
       THEN pc' = "exit" /\ exitmsg' = "No focal-length data found (tags missing)."
       ELSE pc' = "write_hist" /\ UNCHANGED exitmsg
    /\ UNCHANGED <<isDir, nfiles, i, out, meta, hist, camfx, written, log, fin, fres>>

\* lines 82-84
WriteHistCsv ==
    /\ pc = "write_hist"
    /\ written' = written @@ (HIST_CSV :>
           [header |-> <<"focal_mm_35eq", "count">>,
            rows   |-> SortedIntItems(hist, DOMAIN hist)])
    /\ pc' = "write_cam"
    /\ UNCHANGED <<isDir, nfiles, i, out, meta, hist, camfx, exitmsg, log, fin, fres>>

\* lines 86-89
WriteCamCsv ==
    /\ pc = "write_cam"
    /\ written' = written @@ (CAM_CSV :>
           [header |-> <<"camera", "native_mm", "focal_mm_35eq", "count">>,
            rows   |-> SortedTripleItems(camfx, DOMAIN camfx)])
    /\ pc' = "plot"
    /\ UNCHANGED <<isDir, nfiles, i, out, meta, hist, camfx, exitmsg, log, fin, fres>>

\* lines 92-101
SavePlot ==
    /\ pc = "plot"
    /\ written' = written @@ (HIST_PNG :>
           [header |-> <<"Focal length (mm, FF eq.)", "Frames">>,
            rows   |-> SortedIntItems(hist, DOMAIN hist)])
    /\ pc' = "done"
    /\ UNCHANGED <<isDir, nfiles, i, out, meta, hist, camfx, exitmsg, log, fin, fres>>

\* the process is terminated from outside (section 5: no cancellation support
\* beyond the operating environment's interrupt handling)
Interrupt ==
    /\ pc \in Running
    /\ pc' = "killed"
    /\ exitmsg' = "KeyboardInterrupt"
    /\ UNCHANGED <<isDir, nfiles, i, out, meta, hist, camfx, written, log, fin, fres>>

Next ==
    \/ CheckRoot
    \/ Discover
    \/ ExifVals
    \/ Fold
    \/ EndScan
    \/ WriteHistCsv
    \/ WriteCamCsv
    \/ SavePlot
    \/ Interrupt

Spec == Init /\ [][Next]_vars

(***************************************************************************)
(* The helpers on their own: fin is a record exif_vals returned for some   *)
(* tool output, and each action applies one helper the way main calls it.  *)
(***************************************************************************)
Makes == {FUJIFILM, Fujifilm, APPLE_INC, Canon, empty}
Models == {X_T5_sp, x_t5, X100V, empty}
FLs == {mm23, mm35_0, mm0, mm123, empty}
FL35s == {mm35, mm50, mm0, dot}
FL35Comps == {mm35, mm26, mm0, unit}

FnLines ==
    {<<>>}
    \cup {<<a>> : a \in Makes}
    \cup {<<a, b>> : a \in Makes, b \in Models}
    \cup {<<a, b, c>> : a \in Makes, b \in Models, c \in FLs}
    \cup {<<a, b, c, d>> : a \in Makes, b \in Models, c \in FLs, d \in FL35s}
    \cup {<<a, b, c, d, e>> : a \in Makes, b \in Models, c \in FLs, d \in FL35s,
                              e \in FL35Comps}

FnInit ==
    /\ pc = "helpers"
    /\ isDir = TRUE
    /\ nfiles = 1
    /\ i = 1
    /\ out = None
    /\ meta = None
    /\ hist = EmptyCounter
    /\ camfx = EmptyCounter
    /\ written = <<>>
    /\ exitmsg = ""
    /\ log = <<>>
    /\ fin \in {exif_vals(Ran(l)) : l \in FnLines}
    /\ fres = None

\* to_float(meta.get(tag)), lines 41 and 67
CallToFloat ==
    /\ \E tag \in {"FL", "FL35", "FL35Comp"} :
          fres' = [fn |-> "to_float", arg |-> fin[tag], val |-> to_float(fin[tag])]
    /\ UNCHANGED <<scanvars, fin>>

\* camera(meta), line 69
CallCamera ==
    /\ fres' = [fn |-> "camera", val |-> camera(fin)]
    /\ UNCHANGED <<scanvars, fin>>

\* ff_equiv(meta, native), line 68, reached when line 67 did not raise
CallFfEquiv ==
    /\ ~IsRaise(to_float(fin.FL))
    /\ fres' = [fn |-> "ff_equiv", native |-> to_float(fin.FL),
                val |-> ff_equiv(fin, to_float(fin.FL))]
    /\ UNCHANGED <<scanvars, fin>>

\* lines 67-74 on empty counters, reached when lines 67-68 did not raise
CallBody ==
    /\ ~IsRaise(Observe(fin).ff_mm)
    /\ fres' = [fn |-> "body", obs |-> Observe(fin),
                hist |-> HistAfter(EmptyCounter, Observe(fin)),
                camfx |-> CamfxAfter(EmptyCounter, Observe(fin))]
    /\ UNCHANGED <<scanvars, fin>>

FnNext ==
    \/ CallToFloat
    \/ CallCamera
    \/ CallFfEquiv
    \/ CallBody

FnSpec == FnInit /\ [][FnNext]_vars

(***************************************************************************)
(* Vocabulary of the properties                                            *)
(***************************************************************************)
\* a usable focal length: a number greater than zero
Usable(x) == IsFloat(x) /\ x.v > 0

RECURSIVE SumOver(_, _)
SumOver(c, ks) ==
    IF ks = {} THEN 0
    ELSE LET k == CHOOSE a \in ks : TRUE IN c[k] + SumOver(c, ks \ {k})
Total(c) == SumOver(c, DOMAIN c)

\* the finished iterations that yielded a usable 35mm-equivalent value
Counted == {j \in 1..Len(log) : Usable(log[j].ff_mm)}
\* to the nearest integer, a half upwards
RoundHalfUp(x) == (x.v + 500) \div 1000
HasMarker(m) == m.Make # None /\ Contains(upper(m.Make.s), FUJIFILM)
ExtractionErrors == {"CalledProcessError", "FileNotFoundError"}

(***************************************************************************)
(* C1: a failure of the metadata tool on one file does not abort the scan: *)
(* the step that meets the failure leaves both histograms as they were and *)
(* goes on to the next file, or to the end of the scan after the last one. *)
(***************************************************************************)
C1_ExtractionFailureIsSkipped ==
    [][(pc = "exif" /\ pc' # "killed" /\ IsRaise(exif_vals(out')))
         => /\ hist' = hist /\ camfx' = camfx
            /\ IF i < nfiles THEN pc' = "exif" /\ i' = i + 1
                             ELSE pc' = "endscan"]_vars

(***************************************************************************)
(* C2: after the first files have been processed the counts of hist sum to *)
(* the number of those files that yielded a usable 35mm-equivalent value,  *)
(* every key present has count >= 1, a file with no usable value changes   *)
(* no key, and no count ever decreases.                                    *)
(***************************************************************************)
C2_State ==
    /\ pc \in {"exif", "fold"} => Len(log) = i - 1
    /\ pc \in {"endscan", "write_hist", "write_cam", "plot", "done"} => Len(log) = nfiles
    /\ Total(hist) = Cardinality(Counted)
    /\ \A k \in DOMAIN hist : hist[k] >= 1

C2_Step ==
    /\ \A k \in DOMAIN hist : k \in DOMAIN hist' /\ hist'[k] >= hist[k]
    /\ (Len(log') = Len(log) + 1 /\ ~Usable(log'[Len(log')].ff_mm)) => hist' = hist
    /\ (Len(log') = Len(log) + 1 /\ Usable(log'[Len(log')].ff_mm))
          => Total(hist') = Total(hist) + 1

C2_HistCountsUsableFiles == [](C2_State) /\ [][C2_Step]_vars

C2_Witness ==
    /\ \E j \in 1..Len(log) : ~Usable(log[j].ff_mm)
    /\ \E k \in DOMAIN hist : hist[k] >= 2

(***************************************************************************)
(* C3: no output file is written before the scan loop has processed every  *)
(* discovered file; a run that ends on a bad root, on no image, on no      *)
(* usable value, on an exception or on termination during the scan has     *)
(* written none of the three files.                                        *)
(***************************************************************************)
C3_NoOutputBeforeScanEnds ==
    /\ DOMAIN written # {}
          => isDir /\ nfiles > 0 /\ Len(log) = nfiles /\ DOMAIN hist # {}
    /\ pc \in {"exit", "raised"} => DOMAIN written = {}
    /\ pc \in {"start", "glob", "exif", "fold", "endscan"} => DOMAIN written = {}

C3_Witness ==
    /\ pc = "killed"
    /\ Len(log) >= 1 /\ Len(log) < nfiles
    /\ DOMAIN hist # {}
    /\ DOMAIN written = {}

(***************************************************************************)
(* C4: for a file with no reported 35mm-equivalent field the key recorded  *)
(* in hist is the crop-adjusted native value (native x 1.5 with the vendor *)
(* marker in the manufacturer, case-insensitively, native x 1.0 without)   *)
(* rounded to the nearest integer with halves rounding up: native 23 gives *)
(* 34.5 and key 35 with the marker, 23 and key 23 without.                 *)
(***************************************************************************)
C4_CropKeyRoundsHalfUp ==
    (/\ fres # None /\ fres.fn = "body"
     /\ fin.FL35 = None /\ fin.FL35Comp = None
     /\ Usable(fres.obs.native))
    => LET adjusted == IF HasMarker(fin)
                       THEN Float((fres.obs.native.v * 3) \div 2)
                       ELSE fres.obs.native
       IN  /\ fres.obs.ff_mm = adjusted
           /\ DOMAIN fres.hist = {RoundHalfUp(adjusted)}

(***************************************************************************)
(* C5: ff_equiv follows a fixed priority: the composite field's number if  *)
(* it carries one, else the separate 35mm tag's number if it carries one,  *)
(* else the crop-adjusted native value if a native focal length is known,  *)
(* else unavailable.                                                       *)
(***************************************************************************)
\* the number a field carries: its leading decimal number, None when the
\* field is missing or does not start with one
Carries(x) ==
    LET g == NumPrefix(OrEmpty(x))
    IN  IF g # <<>> /\ ~IsRaise(float(g)) THEN float(g) ELSE None

C5_FfEquivPriority ==
    (fres # None /\ fres.fn = "ff_equiv")
    => fres.val =
         IF Carries(fin.FL35Comp) # None THEN Carries(fin.FL35Comp)
         ELSE IF Carries(fin.FL35) # None THEN Carries(fin.FL35)
         ELSE IF fres.native # None
              THEN IF HasMarker(fin) THEN Float((fres.native.v * 3) \div 2)
                                     ELSE fres.native
         ELSE None

(***************************************************************************)
(* C6: to_float never fails: it returns the leading decimal number of the  *)
(* field, and absent for a missing field or one that does not start with   *)
(* a decimal number, malformed digit/dot runs included.                    *)
(***************************************************************************)
C6_ToFloatNeverFails ==
    (fres # None /\ fres.fn = "to_float")
    => /\ ~IsRaise(fres.val)
       /\ fres.val = Carries(fres.arg)

(***************************************************************************)
(* C7: camera gives iPhone when the manufacturer contains APPLE, else for  *)
(* a manufacturer containing FUJIFILM it gives XT5 if the model contains   *)
(* X-T5 and the raw model otherwise (markers matched case-insensitively),  *)
(* else the raw model if non-empty, else the raw manufacturer if           *)
(* non-empty, else Unknown.                                                *)
(***************************************************************************)
C7_CameraLabel ==
    (fres # None /\ fres.fn = "camera")
    => LET make  == OrEmpty(fin.Make)
           model == OrEmpty(fin.Model)
       IN  fres.val =
             IF Contains(upper(make), <<"A","P","P","L","E">>) THEN iPhone
             ELSE IF Contains(upper(make), FUJIFILM)
                  THEN IF Contains(upper(model), X_T5) THEN XT5 ELSE model
             ELSE IF model # <<>> THEN model
             ELSE IF make # <<>> THEN make
             ELSE Unknown

(***************************************************************************)
(* C8: the histogram CSV has, after the header, exactly one row per        *)
(* distinct rounded 35mm-equivalent value observed in the scan, in         *)
(* strictly ascending order of value, each with the number of files that   *)
(* produced the value; the per-camera CSV has one row per distinct         *)
(* (camera, native, 35mm-eq) triple in ascending order of the triple.      *)
(***************************************************************************)
ObservedKey(j) == round(log[j].ff_mm)
ObservedTriple(j) == <<log[j].cam, round(log[j].native), round(log[j].ff_mm)>>
WithNative == {j \in Counted : Usable(log[j].native)}

C8_HistCsv ==
    HIST_CSV \in DOMAIN written
    => LET rows == written[HIST_CSV].rows
       IN  /\ written[HIST_CSV].header = <<"focal_mm_35eq", "count">>
           /\ \A a, b \in 1..Len(rows) : a < b => rows[a][1] < rows[b][1]
           /\ {rows[a][1] : a \in 1..Len(rows)} = {ObservedKey(j) : j \in Counted}
           /\ \A a \in 1..Len(rows) :
                 rows[a][2] = Cardinality({j \in Counted : ObservedKey(j) = rows[a][1]})

C8_CamCsv ==
    CAM_CSV \in DOMAIN written
    => LET rows == written[CAM_CSV].rows
           key(a) == <<rows[a][1], rows[a][2], rows[a][3]>>
       IN  /\ written[CAM_CSV].header = <<"camera", "native_mm", "focal_mm_35eq", "count">>
           /\ \A a, b \in 1..Len(rows) : a < b => TripleLess(key(a), key(b))
           /\ {key(a) : a \in 1..Len(rows)} = {ObservedTriple(j) : j \in WithNative}
           /\ \A a \in 1..Len(rows) :
                 rows[a][4] = Cardinality({j \in WithNative : ObservedTriple(j) = key(a)})

C8_CsvRowsSortedAndCounted == C8_HistCsv /\ C8_CamCsv

\* three files of which two share a rounded value: two rows, counts 2 and 1
C8_Witness ==
    /\ pc = "done"
    /\ nfiles = 3
    /\ Len(written[HIST_CSV].rows) = 2
    /\ {written[HIST_CSV].rows[a][2] : a \in 1..2} = {1, 2}
    /\ Len(written[CAM_CSV].rows) >= 2

(***************************************************************************)
(* C9: when the tool exits successfully with k < 5 lines, exif_vals        *)
(* returns a record with all five fields in which the k emitted lines are  *)
(* assigned to the fields in the fixed order and every remaining field is  *)
(* absent, and the scan goes on with that record (no extraction error      *)
(* ends the run).                                                          *)
(***************************************************************************)
C9_ShortOutputFillsFieldsInOrder ==
    (pc \in {"fold", "raised"} /\ out.found /\ out.rc = 0 /\ Len(out.lines) < 5)
    => /\ exitmsg \notin ExtractionErrors
       /\ DOMAIN meta = {keys[j] : j \in 1..Len(keys)}
       /\ \A j \in 1..Len(keys) :
             meta[keys[j]] = IF j <= Len(out.lines) THEN Str(out.lines[j]) ELSE None

(***************************************************************************)
(* C10: camfx is incremented for a file only in the step in which hist is  *)
(* incremented for it: for every value v the camfx counts of the triples   *)
(* ending in v sum to at most hist[v], every triple ends in a key of hist, *)
(* and the total of camfx is at most the total of hist, strictly less      *)
(* exactly when some counted file had no usable native focal length.       *)
(***************************************************************************)
C10_State ==
    /\ \A t \in DOMAIN camfx : t[3] \in DOMAIN hist
    /\ \A v \in DOMAIN hist :
          SumOver(camfx, {t \in DOMAIN camfx : t[3] = v}) <= hist[v]
    /\ Total(camfx) <= Total(hist)
    /\ Total(camfx) < Total(hist)
          <=> \E j \in Counted : ~Usable(log[j].native)

C10_Step ==
    camfx' # camfx
    => /\ Total(camfx') = Total(camfx) + 1
       /\ Total(hist') = Total(hist) + 1
       /\ Len(log') = Len(log) + 1

C10_CamfxWithinHist == [](C10_State) /\ [][C10_Step]_vars

C10_Witness ==
    /\ Total(camfx) < Total(hist)
    /\ \E v \in DOMAIN hist : Cardinality({t \in DOMAIN camfx : t[3] = v}) >= 2

====
